---- MODULE Spec2Model ----
(***************************************************************************)
(* Model of the MentorSession Durable Object of src/src/index.ts: one      *)
(* session holding the last analysed code and the last tip in memory and   *)
(* in Durable Object storage, fed by WebSocket messages that are gated by  *)
(* calculateDiff before the Workers AI call.                               *)
(*                                                                         *)
(* Texts are sequences of one-character strings.  A handler is one         *)
(* invocation of webSocketMessage; it is suspended at its awaits (the AI   *)
(* call, the two storage puts).  The Durable Object runtime delivers no    *)
(* other event while a storage operation of the object is in progress      *)
(* (input gate), but it does deliver events while a handler awaits the AI  *)
(* call.  send() on a socket whose peer is gone is silently dropped.       *)
(***************************************************************************)
EXTENDS Integers, Sequences, FiniteSets, Bags, TLC

VARIABLES
    lastAnalyzedCode,   \* this.lastAnalyzedCode
    lastTip,            \* this.lastTip
    storage,            \* this.ctx.storage: a function from the keys written so far
    sockets,            \* the connections accepted by ctx.acceptWebSocket and still open
    handlers,           \* the bag of webSocketMessage invocations suspended at an await
    sent,               \* the frames the last step put on the sockets, in order
    tipOf,              \* history: the code whose AI call returned the tip held in memory
                        \* (tipOf.mem) and the one held in storage (tipOf.store)
    lastOp,             \* history: the step taken last
    diff                \* one call of calculateDiff on its own: oldText, newText and the
                        \* value returned (NotCalled before the call)

vars == <<lastAnalyzedCode, lastTip, storage, sockets, handlers, sent, tipOf, lastOp, diff>>

\* ---------------------------------------------------------------- bounds
MaxInflight == 2        \* webSocketMessage invocations suspended at the same time
MaxLen == 4             \* length of the texts calculateDiff is called on by itself

\* ---------------------------------------------------------------- inputs
Rep(c, n) == [i \in 1..n |-> c]

Conns == {"c1", "c2"}
NoConn == "none"

A50 == Rep("a", 50)              \* 50 characters: at the threshold from the empty baseline
A50c == Rep("a", 50) \o <<"c">>   \* one character appended to A50
bA50 == <<"b">> \o Rep("a", 50)   \* one character put in front of A50
Snapshots == {A50, A50c, bA50}
NoCode == <<"-">>

Tips == {"use const", "add a type annotation"}

\* the texts of at most MaxLen characters over a two-letter alphabet
Alphabet == {"a", "b"}
DiffTexts == UNION {[1..n -> Alphabet] : n \in 0..MaxLen}
NotCalled == -1

\* ---------------------------------------------------------------- program constants
CHANGE_THRESHOLD == 50
RESTORE_CODE == "RESTORE_CODE:"
AI_TIP == "AI TIP:"
AI_TIP_SP == "AI TIP: "
ErrorText == "Error generating tip."

\* ---------------------------------------------------------------- calculateDiff
Min(a, b) == IF a < b THEN a ELSE b
Max(a, b) == IF a > b THEN a ELSE b

\* while (start < minLen && oldText[start] === newText[start]) start++
RECURSIVE ScanStart(_, _, _, _)
ScanStart(oldText, newText, start, minLen) ==
    IF start < minLen /\ oldText[start + 1] = newText[start + 1]
    THEN ScanStart(oldText, newText, start + 1, minLen)
    ELSE start

\* mutant: the backward scan is limited by minLen alone and may run into the prefix
RECURSIVE ScanEnd_Overlapping(_, _, _, _, _)
ScanEnd_Overlapping(oldText, newText, start, end, minLen) ==
    IF end < minLen /\ oldText[Len(oldText) - end] = newText[Len(newText) - end]
    THEN ScanEnd_Overlapping(oldText, newText, start, end + 1, minLen)
    ELSE end

\* while (end < minLen - start && oldText[oldText.length - 1 - end] === newText[newText.length - 1 - end]) end++
RECURSIVE ScanEnd(_, _, _, _, _)
ScanEnd(oldText, newText, start, end, minLen) ==
    IF end < minLen - start /\ oldText[Len(oldText) - end] = newText[Len(newText) - end]
    THEN ScanEnd(oldText, newText, start, end + 1, minLen)
    ELSE end

\* mutant: the smaller of the two middles is returned
calculateDiff_MinOfMiddles(oldText, newText) ==
    IF oldText = newText THEN 0
    ELSE IF oldText = <<>> THEN Len(newText)
    ELSE IF newText = <<>> THEN Len(oldText)
    ELSE LET minLen == Min(Len(oldText), Len(newText))
             start == ScanStart(oldText, newText, 0, minLen)
             end == ScanEnd(oldText, newText, start, 0, minLen)
         IN Min(Len(oldText) - start - end, Len(newText) - start - end)

\* mutant: only the common prefix is skipped, there is no backward scan
calculateDiff_PrefixOnly(oldText, newText) ==
    IF oldText = newText THEN 0
    ELSE IF oldText = <<>> THEN Len(newText)
    ELSE IF newText = <<>> THEN Len(oldText)
    ELSE LET minLen == Min(Len(oldText), Len(newText))
             start == ScanStart(oldText, newText, 0, minLen)
         IN Max(Len(oldText) - start, Len(newText) - start)

\* mutant: the middle of newText is returned, whatever the middle of oldText
calculateDiff_NewMiddleOnly(oldText, newText) ==
    IF oldText = newText THEN 0
    ELSE IF oldText = <<>> THEN Len(newText)
    ELSE IF newText = <<>> THEN Len(oldText)
    ELSE LET minLen == Min(Len(oldText), Len(newText))
             start == ScanStart(oldText, newText, 0, minLen)
             end == ScanEnd(oldText, newText, start, 0, minLen)
         IN Len(newText) - start - end

\* mutant: no early return for equal texts, the whole longer text counts
calculateDiff_CountsWhole(oldText, newText) == Max(Len(oldText), Len(newText))

\* const changeMagnitude = this.calculateDiff(this.lastAnalyzedCode, currentCode) and the
\* body of calculateDiff
calculateDiff(oldText, newText) ==
    IF oldText = newText THEN 0
    ELSE IF oldText = <<>> THEN Len(newText)
    ELSE IF newText = <<>> THEN Len(oldText)
    ELSE LET minLen == Min(Len(oldText), Len(newText))
             start == ScanStart(oldText, newText, 0, minLen)
             end == ScanEnd(oldText, newText, start, 0, minLen)
             oldDiff == Len(oldText) - start - end
             newDiff == Len(newText) - start - end
         IN Max(oldDiff, newDiff)

\* ---------------------------------------------------------------- helpers
\* the frames the server writes with ws.send / server.send
Frame(prefix, body) == [prefix |-> prefix, body |-> body]
ResultFrame(tip) == Frame(AI_TIP_SP, tip)            \* `AI TIP: ${response.response}`
ErrorFrame == Frame(AI_TIP_SP, ErrorText)            \* `AI TIP: Error generating tip.`
RestoreCodeFrame(code) == Frame(RESTORE_CODE, code)  \* `RESTORE_CODE:${this.lastAnalyzedCode}`
\* mutant: the replayed tip is framed like a fresh result
RestoreTipFrame_AsResult(tip) == Frame(AI_TIP_SP, tip)
RestoreTipFrame(tip) == Frame(AI_TIP, tip)           \* `AI TIP:${this.lastTip}`

\* the characters of the strings the frames are built from
Chars(str) ==
    CASE str = "RESTORE_CODE:" -> <<"R", "E", "S", "T", "O", "R", "E", "_", "C", "O", "D", "E", ":">>
      [] str = "AI TIP:" -> <<"A", "I", " ", "T", "I", "P", ":">>
      [] str = "AI TIP: " -> <<"A", "I", " ", "T", "I", "P", ":", " ">>
      [] str = "Error generating tip." -> <<"E", "r", "r", "o", "r", " ", "g", "e", "n", "e", "r", "a", "t", "i", "n", "g", " ", "t", "i", "p", ".">>
      [] str = "use const" -> <<"u", "s", "e", " ", "c", "o", "n", "s", "t">>
      [] str = "add a type annotation" -> <<"a", "d", "d", " ", "a", " ", "t", "y", "p", "e", " ", "a", "n", "n", "o", "t", "a", "t", "i", "o", "n">>

\* the text on the socket: the template literal of lines 169, 172, 202 and 213
WireOf(frame) ==
    Chars(frame.prefix) \o (IF frame.prefix = RESTORE_CODE THEN frame.body ELSE Chars(frame.body))

\* data.startsWith(prefix)
StartsWith(data, prefix) == Len(data) >= Len(prefix) /\ SubSeq(data, 1, Len(prefix)) = prefix

\* ws.onmessage of the client: what it does with a frame
ClientHandles(data) ==
    IF StartsWith(data, Chars("AI TIP:")) THEN "suggestion"
    ELSE IF StartsWith(data, Chars("RESTORE_CODE:")) THEN "restore"
    ELSE "ignored"

\* mutant: the frame goes to the first open socket of the object, not to ws
Send_ToFirstSocket(ws, frame) ==
    IF sockets # {} THEN <<[to |-> CHOOSE c \in sockets : \A d \in sockets : c = d \/ c # ws,
                            frame |-> frame]>>
    ELSE <<>>

\* ws.send(frame): a frame for a socket whose peer has gone is dropped
Send(ws, frame) ==
    IF ws \in sockets THEN <<[to |-> ws, frame |-> frame]>> ELSE <<>>

\* ctx.storage.put(key, value)
Put(key, value) ==
    [k \in DOMAIN storage \cup {key} |-> IF k = key THEN value ELSE storage[k]]

\* (await ctx.storage.get(key)) || ''
StoredCode == IF "lastCode" \in DOMAIN storage THEN storage["lastCode"] ELSE <<>>
StoredTip == IF "lastTip" \in DOMAIN storage THEN storage["lastTip"] ELSE ""

\* one invocation of webSocketMessage: where it is suspended, its ws and
\* currentCode, the response of env.AI.run once it has resolved, and (history)
\* the frames it has sent that reached its socket
Handler(pc, ws, currentCode, response, told) ==
    [pc |-> pc, ws |-> ws, currentCode |-> currentCode, response |-> response, told |-> told]
InFlight == BagToSet(handlers)
Replace(h, g) == (handlers (-) SetToBag({h})) (+) SetToBag({g})
Remove(h) == handlers (-) SetToBag({h})

\* no storage operation of the object is in progress: events can be delivered
GateOpen == \A h \in InFlight : h.pc \notin {"put1", "put2"}

Op(op, ws, code) == [op |-> op, ws |-> ws, code |-> code]

\* mutant: the comparison is >= instead of >
ThresholdHit_AtOrAbove(oldText, newText) == calculateDiff(oldText, newText) >= CHANGE_THRESHOLD

\* if (changeMagnitude > CHANGE_THRESHOLD)
ThresholdHit(oldText, newText) == calculateDiff(oldText, newText) > CHANGE_THRESHOLD

\* ---------------------------------------------------------------- the session
Constructed ==
    /\ lastAnalyzedCode = <<>>
    /\ lastTip = ""
    /\ storage = <<>>
    /\ sockets = {}
    /\ handlers = EmptyBag
    /\ sent = <<>>
    /\ tipOf = [mem |-> NoCode, store |-> NoCode]
    /\ lastOp = Op("init", NoConn, <<>>)

\* a session, with no call of calculateDiff on its own
Init ==
    /\ Constructed
    /\ diff = [oldText |-> <<>>, newText |-> <<>>, result |-> NotCalled]

\* fetch: accept the socket and hydrate the new client
Fetch(c) ==
    /\ GateOpen
    /\ c \notin sockets
    /\ sockets' = sockets \cup {c}
    /\ sent' = (IF lastAnalyzedCode # <<>>
                THEN <<[to |-> c, frame |-> RestoreCodeFrame(lastAnalyzedCode)]>> ELSE <<>>)
               \o (IF lastTip # ""
                   THEN <<[to |-> c, frame |-> RestoreTipFrame(lastTip)]>> ELSE <<>>)
    /\ lastOp' = Op("fetch", c, <<>>)
    /\ UNCHANGED <<lastAnalyzedCode, lastTip, storage, handlers, tipOf, diff>>

\* the peer closes its socket (the class has no close handler)
Close(c) ==
    /\ c \in sockets
    /\ sockets' = sockets \ {c}
    /\ sent' = <<>>
    /\ lastOp' = Op("close", c, <<>>)
    /\ UNCHANGED <<lastAnalyzedCode, lastTip, storage, handlers, tipOf, diff>>

\* webSocketMessage up to the await of env.AI.run, or to its end when the
\* threshold is not hit
WebSocketMessage(ws, currentCode) ==
    /\ GateOpen
    /\ ws \in sockets
    /\ IF ThresholdHit(lastAnalyzedCode, currentCode)
       THEN /\ BagCardinality(handlers) < MaxInflight
            /\ handlers' = handlers (+) SetToBag({Handler("ai", ws, currentCode, "", <<>>)})
       ELSE UNCHANGED handlers
    /\ sent' = <<>>
    /\ lastOp' = Op("message", ws, currentCode)
    /\ UNCHANGED <<lastAnalyzedCode, lastTip, storage, sockets, tipOf, diff>>

\* mutant: the response is dropped when the sender's socket has been closed
AiResolves_CancelledWhenClosed(h, tip) ==
    /\ GateOpen
    /\ h \in InFlight
    /\ h.pc = "ai"
    /\ sent' = Send(h.ws, ResultFrame(tip))
    /\ lastAnalyzedCode' = IF h.ws \in sockets THEN h.currentCode ELSE lastAnalyzedCode
    /\ lastTip' = IF h.ws \in sockets THEN tip ELSE lastTip
    /\ tipOf' = IF h.ws \in sockets THEN [tipOf EXCEPT !.mem = h.currentCode] ELSE tipOf
    /\ handlers' = IF h.ws \in sockets
                   THEN Replace(h, Handler("put1", h.ws, h.currentCode, tip, <<ResultFrame(tip)>>))
                   ELSE Remove(h)
    /\ lastOp' = Op("aiResolves", NoConn, <<>>)
    /\ UNCHANGED <<storage, sockets, diff>>

\* env.AI.run resolves: send the tip, update the baseline, start put('lastCode')
AiResolves(h, tip) ==
    /\ GateOpen
    /\ h \in InFlight
    /\ h.pc = "ai"
    /\ sent' = Send(h.ws, ResultFrame(tip))
    /\ lastAnalyzedCode' = h.currentCode
    /\ lastTip' = tip
    /\ tipOf' = [tipOf EXCEPT !.mem = h.currentCode]
    /\ handlers' = Replace(h, Handler("put1", h.ws, h.currentCode, tip,
                                      IF h.ws \in sockets THEN <<ResultFrame(tip)>> ELSE <<>>))
    /\ lastOp' = Op("aiResolves", NoConn, <<>>)
    /\ UNCHANGED <<storage, sockets, diff>>

\* mutant: the baseline is moved to currentCode although the call was rejected
AiRejects_AdvancesBaseline(h) ==
    /\ GateOpen
    /\ h \in InFlight
    /\ h.pc = "ai"
    /\ sent' = Send(h.ws, ErrorFrame)
    /\ lastAnalyzedCode' = h.currentCode
    /\ handlers' = Remove(h)
    /\ lastOp' = Op("aiRejects", NoConn, <<>>)
    /\ UNCHANGED <<lastTip, storage, sockets, tipOf, diff>>

\* mutant: the catch block only logs, no error frame is sent
AiRejects_Silent(h) ==
    /\ GateOpen
    /\ h \in InFlight
    /\ h.pc = "ai"
    /\ sent' = <<>>
    /\ handlers' = Remove(h)
    /\ lastOp' = Op("aiRejects", NoConn, <<>>)
    /\ UNCHANGED <<lastAnalyzedCode, lastTip, storage, sockets, tipOf, diff>>

\* env.AI.run rejects: the catch block sends the error text
AiRejects(h) ==
    /\ GateOpen
    /\ h \in InFlight
    /\ h.pc = "ai"
    /\ sent' = Send(h.ws, ErrorFrame)
    /\ handlers' = Remove(h)
    /\ lastOp' = Op("aiRejects", NoConn, <<>>)
    /\ UNCHANGED <<lastAnalyzedCode, lastTip, storage, sockets, tipOf, diff>>

\* put('lastCode', this.lastAnalyzedCode) is applied; put('lastTip', this.lastTip) starts
PutCodeResolves(h) ==
    /\ h \in InFlight
    /\ h.pc = "put1"
    /\ storage' = Put("lastCode", h.currentCode)
    /\ handlers' = Replace(h, [h EXCEPT !.pc = "put2"])
    /\ sent' = <<>>
    /\ lastOp' = Op("putCodeResolves", NoConn, <<>>)
    /\ UNCHANGED <<lastAnalyzedCode, lastTip, sockets, tipOf, diff>>

\* put('lastTip', this.lastTip) is applied: the handler returns
PutTipResolves(h) ==
    /\ h \in InFlight
    /\ h.pc = "put2"
    /\ storage' = Put("lastTip", lastTip)
    /\ tipOf' = [tipOf EXCEPT !.store = tipOf.mem]
    /\ handlers' = Remove(h)
    /\ sent' = <<>>
    /\ lastOp' = Op("putTipResolves", NoConn, <<>>)
    /\ UNCHANGED <<lastAnalyzedCode, lastTip, sockets, diff>>

\* a storage put rejects: the same catch block sends the error text
PutRejects(h) ==
    /\ h \in InFlight
    /\ h.pc \in {"put1", "put2"}
    /\ sent' = Send(h.ws, ErrorFrame)
    /\ handlers' = Remove(h)
    /\ lastOp' = Op("putRejects", NoConn, <<>>)
    /\ UNCHANGED <<lastAnalyzedCode, lastTip, storage, sockets, tipOf, diff>>

\* the object is evicted or crashes and is constructed again: the suspended
\* handlers and the sockets of a crashed object are gone, the fields are read
\* back from storage
Restart ==
    /\ lastAnalyzedCode' = StoredCode
    /\ lastTip' = StoredTip
    /\ tipOf' = [tipOf EXCEPT !.mem = tipOf.store]
    /\ handlers' = EmptyBag
    /\ sockets' = IF handlers = EmptyBag THEN sockets ELSE {}
    /\ sent' = <<>>
    /\ lastOp' = Op("restart", NoConn, <<>>)
    /\ UNCHANGED <<storage, diff>>

Next ==
    \/ \E c \in Conns : Fetch(c)
    \/ \E c \in Conns : Close(c)
    \/ \E c \in Conns, s \in Snapshots : WebSocketMessage(c, s)
    \/ \E h \in InFlight, t \in Tips : AiResolves(h, t)
    \/ \E h \in InFlight : AiRejects(h)
    \/ \E h \in InFlight : PutCodeResolves(h)
    \/ \E h \in InFlight : PutTipResolves(h)
    \/ \E h \in InFlight : PutRejects(h)
    \/ Restart

Spec == Init /\ [][Next]_vars

\* ---------------------------------------------------------------- calculateDiff on its own
\* the session stays as constructed; the two arguments are any two texts
DiffInit ==
    /\ Constructed
    /\ diff \in [oldText : DiffTexts, newText : DiffTexts, result : {NotCalled}]

\* this.calculateDiff(oldText, newText)
CallDiff ==
    /\ diff.result = NotCalled
    /\ diff' = [diff EXCEPT !.result = calculateDiff(diff.oldText, diff.newText)]
    /\ UNCHANGED <<lastAnalyzedCode, lastTip, storage, sockets, handlers, sent, tipOf, lastOp>>

DiffSpec == DiffInit /\ [][CallDiff]_vars

\* ---------------------------------------------------------------- shared vocabulary of the claims
\* the invocation that took the step: one copy of h leaves the bag (it moves on or returns)
Stepped(h) == h \in InFlight /\ CopiesIn(h, handlers') = CopiesIn(h, handlers) - 1

\* a frame written by line 202 with a tip in it / by line 213
IsResult(frame) == frame.prefix = AI_TIP_SP /\ frame.body # ErrorText
IsError(frame) == frame.prefix = AI_TIP_SP /\ frame.body = ErrorText

\* the tip is the AI's response for exactly this code, or there is neither
Paired(code, tip, source) == (code = <<>> /\ tip = "") \/ (tip # "" /\ source = code)

\* ---------------------------------------------------------------- C1
\* C1: outside a restart, lastAnalyzedCode and lastTip change only in the step in
\* which env.AI.run resolves for an invocation that passed the threshold, and
\* that step sets them to exactly (that invocation's currentCode, that response);
\* no message step, no rejected call, no storage step and no fetch changes them.
C1_Step ==
    /\ (lastOp'.op # "restart" /\ <<lastAnalyzedCode, lastTip>>' # <<lastAnalyzedCode, lastTip>>)
            => lastOp'.op = "aiResolves"
    /\ lastOp'.op = "aiResolves" =>
            \E h \in InFlight :
                /\ h.pc = "ai"
                /\ Stepped(h)
                /\ lastAnalyzedCode' = h.currentCode
                /\ lastTip' \in Tips
                /\ \E g \in BagToSet(handlers') :
                        /\ g.pc = "put1" /\ g.currentCode = h.currentCode /\ g.response = lastTip'
                        /\ handlers' = Replace(h, g)
                /\ \A i \in 1..Len(sent') : sent'[i].frame = ResultFrame(lastTip')
C1_BaselineAdvancesOnlyOnSuccess == [][C1_Step]_vars

\* a second successful analysis has just replaced a persisted baseline
C1_Witness ==
    /\ lastOp.op = "aiResolves"
    /\ lastAnalyzedCode = bA50
    /\ StoredCode = A50c
    /\ lastTip = "add a type annotation"

\* ---------------------------------------------------------------- C2
\* C2: a message step starts the AI call iff calculateDiff(lastAnalyzedCode,
\* message) > 50, lastAnalyzedCode being untouched by the messages received
\* since the last analysis; at or below 50 it starts no call, sends nothing and
\* leaves the fields and the storage unchanged.
C2_Step ==
    lastOp'.op = "message" =>
        LET s == lastOp'.code
            called == handlers' # handlers
        IN /\ called <=> (calculateDiff(lastAnalyzedCode, s) > 50)
           /\ called => handlers' = handlers (+) SetToBag({Handler("ai", lastOp'.ws, s, "", <<>>)})
           /\ sent' = <<>>
           /\ UNCHANGED <<lastAnalyzedCode, lastTip, storage, tipOf>>
C2_GateIffAboveThreshold == [][C2_Step]_vars

\* a first snapshot of exactly 50 characters on a fresh session was skipped
C2_Witness ==
    /\ lastOp.op = "message"
    /\ lastOp.code = A50
    /\ lastAnalyzedCode = <<>>
    /\ handlers = EmptyBag

\* ---------------------------------------------------------------- C3
\* C3: at no time are two webSocketMessage invocations of the session in flight.
C3_OneSnapshotInFlight == BagCardinality(handlers) <= 1

\* ---------------------------------------------------------------- C4
\* C4: in every reachable state the lastTip in memory is the AI's response for
\* exactly the lastAnalyzedCode in memory, or both are empty.
C4_MemoryPairNeverStale == Paired(lastAnalyzedCode, lastTip, tipOf.mem)

\* ---------------------------------------------------------------- C5
\* C5: in every reachable state the storage holds both keys of one analysis or
\* neither: never a code with the tip of another code (or with no tip), and
\* when an invocation has returned after its second put the storage equals
\* the fields.
C5_StoredPairAtomic ==
    /\ Paired(StoredCode, StoredTip, tipOf.store)
    /\ lastOp.op = "putTipResolves" => StoredCode = lastAnalyzedCode /\ StoredTip = lastTip

\* ---------------------------------------------------------------- C6
\* C6: the step in which env.AI.run rejects leaves lastAnalyzedCode, lastTip and
\* the storage as they were, sends the error frame to the sender (when its
\* socket is still open) and ends the invocation; afterwards a message above the
\* threshold from any open socket is accepted for analysis again.
C6_Step ==
    lastOp'.op = "aiRejects" =>
        /\ UNCHANGED <<lastAnalyzedCode, lastTip, storage, tipOf>>
        /\ \E h \in InFlight :
              /\ h.pc = "ai"
              /\ Stepped(h)
              /\ handlers' = Remove(h)
              /\ sent' = IF h.ws \in sockets THEN <<[to |-> h.ws, frame |-> ErrorFrame]>> ELSE <<>>
C6_Usable ==
    lastOp.op = "aiRejects" =>
        \A c \in sockets, s \in Snapshots :
            calculateDiff(lastAnalyzedCode, s) > 50 => ENABLED WebSocketMessage(c, s)
C6_FailureLeavesSessionIntact == [][C6_Step]_vars /\ []C6_Usable

\* the call for bA50 was rejected while A50c stays the analysed, persisted baseline
C6_Witness ==
    /\ lastOp.op = "aiRejects"
    /\ lastAnalyzedCode = A50c
    /\ StoredCode = A50c
    /\ StoredTip = lastTip
    /\ Len(sent) = 1
    /\ sent[1].frame = ErrorFrame

\* ---------------------------------------------------------------- C7
\* C7: whenever a result frame has just been sent, the storage already holds the
\* code and the tip of that analysis.
C7_DurableBeforeVisible ==
    \A i \in 1..Len(sent) :
        IsResult(sent[i].frame) =>
            /\ StoredTip = sent[i].frame.body
            /\ StoredCode = lastAnalyzedCode
            /\ tipOf.store = lastAnalyzedCode

\* ---------------------------------------------------------------- C8
\* C8: an invocation whose storage put rejects has sent no result frame, and
\* after the step the fields in memory equal what the storage holds.
C8_Step ==
    lastOp'.op = "putRejects" =>
        /\ \E h \in InFlight : Stepped(h) /\ \A i \in 1..Len(h.told) : ~IsResult(h.told[i])
        /\ lastAnalyzedCode' = StoredCode'
        /\ lastTip' = StoredTip'
C8_StoreFailureOnlyError == [][C8_Step]_vars

\* ---------------------------------------------------------------- C9
\* C9 (as claimed): every result or error frame of an invocation goes to every
\* socket open at that time.
OutcomeOps == {"aiResolves", "aiRejects", "putRejects"}
C9_Broadcast_Step ==
    lastOp'.op \in OutcomeOps => \A c \in sockets : \E i \in 1..Len(sent') : sent'[i].to = c
C9_Step ==
    lastOp'.op \in OutcomeOps =>
        \E h \in InFlight :
            /\ Stepped(h)
            /\ Len(sent') = (IF h.ws \in sockets THEN 1 ELSE 0)
            /\ \A i \in 1..Len(sent') :
                  /\ sent'[i].to = h.ws
                  /\ IF lastOp'.op = "aiResolves" THEN IsResult(sent'[i].frame) ELSE IsError(sent'[i].frame)
C10_Step ==
    lastOp'.op = "fetch" =>
        LET c == lastOp'.ws
        IN /\ UNCHANGED <<lastAnalyzedCode, lastTip, storage, handlers, tipOf>>
           /\ c \notin sockets /\ sockets' = sockets \cup {c}
           /\ (lastAnalyzedCode # <<>> /\ lastTip # "") =>
                 sent' = << [to |-> c, frame |-> [prefix |-> "RESTORE_CODE:", body |-> lastAnalyzedCode]],
                            [to |-> c, frame |-> [prefix |-> "AI TIP:", body |-> lastTip]] >>
           /\ (lastAnalyzedCode = <<>> /\ lastTip = "") => sent' = <<>>
           /\ \A i \in 1..Len(sent') :
                 sent'[i].to = c /\ ~IsResult(sent'[i].frame) /\ ~IsError(sent'[i].frame)
C10_AttachReplaysWithoutMutation == [][C10_Step]_vars

\* a socket attached to a session holding an analysed pair and got the two frames
C10_Witness ==
    /\ lastOp.op = "fetch"
    /\ lastAnalyzedCode = bA50
    /\ lastTip = "use const"
    /\ Len(sent) = 2

\* ---------------------------------------------------------------- C11
\* C11: right after the object is constructed again, lastAnalyzedCode and lastTip
\* equal what the storage holds under 'lastCode' and 'lastTip' (an absent key
\* reads as the empty string) and no invocation is in flight; a socket that
\* attaches next is sent exactly these values, and they are an analyzed code
\* together with the AI's response for that code.
C11_Reloaded ==
    lastOp.op = "restart" =>
        /\ lastAnalyzedCode = (IF "lastCode" \in DOMAIN storage THEN storage["lastCode"] ELSE <<>>)
        /\ lastTip = (IF "lastTip" \in DOMAIN storage THEN storage["lastTip"] ELSE "")
        /\ handlers = EmptyBag
C11_ReconnectStep ==
    (lastOp.op = "restart" /\ lastOp'.op = "fetch") =>
        /\ sent' = (IF lastAnalyzedCode # <<>>
                    THEN <<[to |-> lastOp'.ws, frame |-> [prefix |-> "RESTORE_CODE:", body |-> lastAnalyzedCode]]>>
                    ELSE <<>>)
                   \o (IF lastTip # ""
                       THEN <<[to |-> lastOp'.ws, frame |-> [prefix |-> "AI TIP:", body |-> lastTip]]>>
                       ELSE <<>>)
        /\ Paired(lastAnalyzedCode, lastTip, tipOf.mem)
C11_RestartRestoresAnalysis == []C11_Reloaded /\ [][C11_ReconnectStep]_vars

\* the reload alone: the fields and the replay are the stored values
C11_ReloadStep ==
    (lastOp.op = "restart" /\ lastOp'.op = "fetch") =>
        \A i \in 1..Len(sent') : sent'[i].frame.body \in {StoredCode, StoredTip}
C11_ReloadIsExact == []C11_Reloaded /\ [][C11_ReloadStep]_vars

\* ---------------------------------------------------------------- C12
\* C12: closing a socket leaves the invocations in flight alone; when env.AI.run
\* resolves for an invocation whose socket has been closed, the fields are set
\* to (currentCode, response) and the invocation goes on to its puts, which
\* write that code and that tip to the storage.
C12_Step ==
    /\ lastOp'.op = "close" => handlers' = handlers
    /\ \A h \in InFlight :
          (Stepped(h) /\ h.ws \notin sockets) =>
              /\ lastOp'.op = "aiResolves" =>
                    /\ lastAnalyzedCode' = h.currentCode
                    /\ lastTip' \in Tips
                    /\ handlers' = Replace(h, Handler("put1", h.ws, h.currentCode, lastTip', <<>>))
              /\ lastOp'.op = "putCodeResolves" =>
                    /\ storage'["lastCode"] = h.currentCode
                    /\ handlers' = Replace(h, [h EXCEPT !.pc = "put2"])
              /\ lastOp'.op = "putTipResolves" =>
                    /\ storage'["lastCode"] = h.currentCode
                    /\ storage'["lastTip"] = h.response
                    /\ lastAnalyzedCode' = h.currentCode
                    /\ lastTip' = h.response
C12_ClosedSenderStillPersisted == [][C12_Step]_vars

\* the sender closed before the response came (it was told nothing), and the
\* analysis of A50c is in memory and in storage
C12_Witness ==
    /\ lastOp.op = "putTipResolves"
    /\ sockets = {}
    /\ sent = <<>>
    /\ lastAnalyzedCode = A50c
    /\ StoredCode = A50c
    /\ StoredTip = lastTip
    /\ lastTip = "use const"

\* ---------------------------------------------------------------- C13
\* C13: the receiver tells the kinds apart: it handles a frame as a fresh
\* suggestion exactly when the frame is the result of an analysis, never when it
\* is the error of a rejected call or the tip replayed on attach.
C13_KindsDistinguishable ==
    \A i \in 1..Len(sent) :
        (ClientHandles(WireOf(sent[i].frame)) = "suggestion") <=> (lastOp.op = "aiResolves")

\* ---------------------------------------------------------------- reference for C14..C17
SetMax(S) == CHOOSE x \in S : \A y \in S : y <= x

\* length of the longest common prefix of a and b
PrefixLen(a, b) ==
    SetMax({k \in 0..Min(Len(a), Len(b)) : \A i \in 1..k : a[i] = b[i]})

\* length of the longest common suffix of a and b that stays clear of the first p characters
SuffixLen(a, b, p) ==
    SetMax({k \in 0..(Min(Len(a), Len(b)) - p) : \A i \in 0..(k - 1) : a[Len(a) - i] = b[Len(b) - i]})

Abs(x) == IF x < 0 THEN -x ELSE x

\* b is a with a block of k characters put in at some position
InsertedBlock(a, b, k) ==
    /\ k > 0
    /\ Len(b) = Len(a) + k
    /\ \E pos \in 0..Len(a) :
          /\ SubSeq(b, 1, pos) = SubSeq(a, 1, pos)
          /\ SubSeq(b, pos + k + 1, Len(b)) = SubSeq(a, pos + 1, Len(a))

\* b is a with exactly one character replaced by another one
ReplacedOne(a, b) ==
    /\ Len(a) = Len(b)
    /\ Cardinality({i \in 1..Len(a) : a[i] # b[i]}) = 1

\* ---------------------------------------------------------------- C14
\* C14: calculateDiff(s, s) = 0, calculateDiff("", s) = calculateDiff(s, "") =
\* length of s, and for all texts the result is max(length(old), length(new))
\* - prefixLen - suffixLen, prefixLen being the longest common prefix and
\* suffixLen the longest common suffix within min(length) - prefixLen.
C14_MatchesReference ==
    diff.result # NotCalled =>
        LET o == diff.oldText
            n == diff.newText
            p == PrefixLen(o, n)
        IN /\ o = n => diff.result = 0
           /\ o = <<>> => diff.result = Len(n)
           /\ n = <<>> => diff.result = Len(o)
           /\ diff.result = Max(Len(o), Len(n)) - p - SuffixLen(o, n, p)

\* "aba" against "aaba": prefix 1, suffix 2, middles 0 and 1
C14_Witness ==
    /\ diff.oldText = <<"a", "b", "a">>
    /\ diff.newText = <<"a", "a", "b", "a">>
    /\ diff.result = 1

\* ---------------------------------------------------------------- C15
\* C15: when newText is oldText with a block of k characters put in (or taken
\* out) at any position the result is k, and when exactly one character is
\* replaced by another the result is 1, however long the unchanged rest is
\* (also for the 50 and 51 character snapshots).
C15_EditSizeOnly ==
    /\ diff.result # NotCalled =>
          /\ \A k \in 1..MaxLen :
                (InsertedBlock(diff.oldText, diff.newText, k)
                    \/ InsertedBlock(diff.newText, diff.oldText, k)) => diff.result = k
          /\ ReplacedOne(diff.oldText, diff.newText) => diff.result = 1
    /\ calculateDiff(A50, A50c) = 1 /\ calculateDiff(bA50, A50) = 1
    /\ calculateDiff(A50c, Rep("a", 51)) = 1

\* two characters appended to "ab"
C15_Witness ==
    /\ diff.oldText = <<"a", "b">>
    /\ diff.newText = <<"a", "b", "b", "b">>
    /\ diff.result = 2

\* ---------------------------------------------------------------- C16
\* C16 (as claimed): there are texts a and b with
\* calculateDiff(a, b) # calculateDiff(b, a): once calculateDiff has returned
\* for one pair, some pair of texts (this one or another) gives different
\* results in the two orders.
C16_Asymmetric ==
    diff.result # NotCalled =>
        \/ diff.result # calculateDiff(diff.newText, diff.oldText)
        \/ \E a, b \in DiffTexts : calculateDiff(a, b) # calculateDiff(b, a)

\* C16 (amended): calculateDiff is symmetric: for all texts the result for
\* (old, new) equals the result for (new, old).
C16_Symmetric ==
    diff.result # NotCalled => diff.result = calculateDiff(diff.newText, diff.oldText)

\* texts of different length with a common prefix: "a" against "abb"
C16_Witness ==
    /\ diff.oldText = <<"a">>
    /\ diff.newText = <<"a", "b", "b">>
    /\ diff.result = 2

\* ---------------------------------------------------------------- C17
\* C17: the prefix and the suffix the two scans match never overlap (start + end
\* <= min(length(old), length(new))), both middles are non-negative, and
\* |length(old) - length(new)| <= result <= max(length(old), length(new)).
C17_NoOverlap ==
    diff.result # NotCalled =>
        LET o == diff.oldText
            n == diff.newText
            minLen == Min(Len(o), Len(n))
            start == ScanStart(o, n, 0, minLen)
            end == ScanEnd(o, n, start, 0, minLen)
        IN /\ (o # <<>> /\ n # <<>>) =>
                 /\ start + end <= minLen
                 /\ Len(o) - start - end >= 0
                 /\ Len(n) - start - end >= 0
           /\ Abs(Len(o) - Len(n)) <= diff.result
           /\ diff.result <= Max(Len(o), Len(n))

\* "aa" against "aaa": the forward scan takes both characters of "aa", the
\* backward scan has nothing left to take although the ends agree
C17_Witness ==
    /\ diff.oldText = <<"a", "a">>
    /\ diff.newText = <<"a", "a", "a">>
    /\ diff.result = 1

\* ---------------------------------------------------------------- C18
\* C18: calculateDiff against the baseline is 0 exactly for the baseline itself,
\* so a message that carries the text lastAnalyzedCode holds starts no
\* env.AI.run, sends no frame and changes neither the fields, the storage nor
\* the invocations in flight.
C18_ZeroForBaselineOnly ==
    \A s \in Snapshots : (calculateDiff(lastAnalyzedCode, s) = 0) <=> (s = lastAnalyzedCode)
C18_Step ==
    (lastOp'.op = "message" /\ lastOp'.code = lastAnalyzedCode) =>
        /\ handlers' = handlers
        /\ sent' = <<>>
        /\ UNCHANGED <<lastAnalyzedCode, lastTip, storage, sockets, tipOf>>
C18_DuplicateSkipped == []C18_ZeroForBaselineOnly /\ [][C18_Step]_vars

\* A50c has been analyzed and stored, and the same text arrived once more
C18_Witness ==
    /\ lastOp.op = "message"
    /\ lastOp.code = A50c
    /\ lastAnalyzedCode = A50c
    /\ StoredCode = A50c
    /\ lastTip \in Tips
    /\ handlers = EmptyBag

\* for the short texts: the result is 0 exactly when the two texts are equal
C18_ZeroIffEqual ==
    diff.result # NotCalled => ((diff.result = 0) <=> (diff.oldText = diff.newText))

====
